---- MODULE Spec2Model ----
(***************************************************************************)
(* Marketplace price tracker (src/process_excel.py, src/main.py,           *)
(* src/streamlit_app.py).                                                  *)
(*                                                                         *)
(* The state machines of this module:                                      *)
(*   SpecBatch       process_excel_file + save_results_to_excel + main     *)
(*   SpecSearch      search_product: query, classification, candidate      *)
(*                   loop, direct-search fallbacks                         *)
(*   SpecExtract     the four extract_price_from_* retry loops             *)
(*                   (SpecExtractLive: with fairness of their steps)       *)
(*   SpecSession     one run: its jobs, the semaphore, the shared and the  *)
(*                   own headless browsers, the teardown of main           *)
(*   SpecPriceCheck  is_price_valid called on its own                      *)
(*   SpecEndpoint    the endpoint /search-and-redirect of main.py          *)
(*   SpecNormalizer  extract_price called on its own                       *)
(*   SpecFunctions   extract_real_url and calculate_similarity called on   *)
(*                   their own                                             *)
(*                                                                         *)
(* Prices are integers in kurus (1/100 TRY): 12000 is 120.00 TRY.          *)
(* An optional value (Python None / pandas NaN) is the empty tuple, a      *)
(* present value v is <<v>>.                                               *)
(***************************************************************************)
EXTENDS Integers, Sequences, FiniteSets, TLC

VARIABLES
    \* ---- batch orchestrator (process_excel_file, main) ----
    bpc,              \* position of the batch: "idle","start","product","pair","returned","saved"
    products,         \* products_data: sequence of product names
    selected,         \* marketplaces to resolve (sequence), <<>> if the selection is invalid
    existing_results, \* name -> row of prices loaded from results.xlsx at batch start
    product_idx,      \* 1-based index of the product in progress
    mp_idx,           \* 1-based index of the marketplace in progress
    product_result,   \* row being built for the product in progress
    all_results,      \* rows appended so far
    store,            \* results.xlsx: [exists, rows]
    calls,            \* number of search_product invocations made by the batch
    raises,           \* number of pair resolutions that raised in this run
    hits,             \* number of prices found in this run
    flushes,          \* number of save_results_to_excel calls that wrote the file
    \* ---- search orchestrator (search_product) ----
    spc,              \* position: "idle","classify","try","done"
    marketplace,      \* marketplace argument
    mm_price,         \* reference price argument (optional)
    ean,              \* external id argument (optional)
    items,            \* data["items"]: sequence of search items
    cls_idx,          \* index of the next item to classify
    product_page_urls, marketplace_urls, category_page_urls,  \* sequences of item ranks
    url_idx,          \* index of the next candidate to try
    tried,            \* log of candidates handed to a price extractor: [rank, res]
    direct,           \* log of direct-search invocations: [fn, path, ean, res]
    result,           \* the dict search_product returned (optional)
    world,            \* which inputs the environment draws: "shapes" or "outcomes"
    \* ---- price extractor (extract_price_from_*) ----
    epc,              \* position: "idle","fetch","done"
    use_selenium,     \* USE_SELENIUM
    impersonating,    \* USE_CURL_CFFI or USE_CLOUDSCRAPER
    extractor,        \* which extractor runs
    attempt,          \* loop variable of `for attempt in range(max_retries + 1)`
    fetches,          \* log of fetch outcomes, one per HTTP/headless fetch of the URL
    outcome,          \* the dict the extractor returned (optional)
    \* ---- one run of the program: its jobs, the limiter, the shared browser ----
    smode,            \* "cli" (batch from the command line), "dashboard", "urls" (--extract-prices)
    sphase,           \* "idle","run","save","close","ended"
    jobs,             \* the browser use of every job of the run (sequence of kinds)
    jpc,              \* position of every job
    permits,          \* value of the asyncio.Semaphore of the run
    pool,             \* _selenium_driver_pool: the shared driver (optional browser id)
    live,             \* browser instances that exist in the process (set of ids)
    started,          \* number of browser instances started so far
    \* ---- one call of a function or of an endpoint ----
    call,             \* the function called, "" if none
    args,             \* its arguments
    env,              \* what the environment answered during the call (optional)
    ret               \* what it returned (optional)

batchVars   == <<bpc, products, selected, existing_results, product_idx, mp_idx,
                 product_result, all_results, store, calls, raises, hits, flushes>>
searchVars  == <<spc, marketplace, mm_price, ean, items, cls_idx, product_page_urls,
                 marketplace_urls, category_page_urls, url_idx, tried, direct, result, world>>
extractVars == <<epc, extractor, attempt, fetches, outcome, use_selenium, impersonating>>
sessionVars == <<smode, sphase, jobs, jpc, permits, pool, live, started>>
callVars    == <<call, args, env, ret>>
laterVars   == <<sessionVars, callVars>>
vars        == <<batchVars, searchVars, extractVars, laterVars>>

None == <<>>
Some(v) == <<v>>

\* all_marketplaces (process_excel.py:3557)
all_marketplaces == <<"Teknosa", "Hepsiburada", "Trendyol", "Amazon">>
Marketplaces == {all_marketplaces[i] : i \in 1..Len(all_marketplaces)}

Last(s) == s[Len(s)]
SeqToSet(s) == {s[i] : i \in 1..Len(s)}

(***************************************************************************)
(*                      BATCH ORCHESTRATOR                                 *)
(***************************************************************************)

\* ---- bounds of the batch model ----
MaxProducts == 5      \* longest product list
MaxHits == 1          \* most prices found in one run
MaxRaises == 1        \* most resolutions that raise in one run

\* `if product_idx % 5 == 0` (process_excel.py:3648)
CheckpointEvery == 5

\* price a resolution may find in this run, and the price of an earlier run
FoundPrices == {15000}
OldPrice == Some(12000)

NoPrices == [m \in Marketplaces |-> None]
Row(name, prices) == [name |-> name, price |-> prices]

AbsentStore == [exists |-> FALSE, rows |-> <<>>]

\* `if pd.notna(new_value): merged_df.at[existing_idx[0], col] = new_value`
MergeCell_overwrite(old, new) == new
MergeCell(old, new) == IF new # None THEN new ELSE old

\* index of the first row of `rows` named `name`, 0 if there is none
FirstIndex(rows, name) ==
    IF \E i \in 1..Len(rows) : rows[i].name = name
    THEN CHOOSE i \in 1..Len(rows) :
            rows[i].name = name /\ \A j \in 1..(i-1) : rows[j].name # name
    ELSE 0

\* one iteration of `for _, new_row in new_df.iterrows()`
MergeRow(merged, new_row) ==
    LET i == FirstIndex(merged, new_row.name) IN
    IF i > 0
    THEN [merged EXCEPT ![i].price =
            [m \in Marketplaces |-> MergeCell(merged[i].price[m], new_row.price[m])]]
    ELSE Append(merged, new_row)

RECURSIVE MergeRows(_, _, _)
MergeRows(merged, new_rows, i) ==
    IF i > Len(new_rows) THEN merged
    ELSE MergeRows(MergeRow(merged, new_rows[i]), new_rows, i + 1)

\* save_results_to_excel: the file after the call
SaveResults(results, st) ==
    IF results = <<>> THEN st
    ELSE IF st.exists
         THEN [exists |-> TRUE, rows |-> MergeRows(st.rows, results, 1)]
         ELSE [exists |-> TRUE, rows |-> results]

\* the loop that fills existing_results: a later row of the file replaces an earlier one
LoadExisting(st) ==
    LET names == {st.rows[i].name : i \in 1..Len(st.rows)} IN
    [n \in names |->
        LET last == CHOOSE i \in 1..Len(st.rows) :
                        st.rows[i].name = n /\ \A j \in (i+1)..Len(st.rows) : st.rows[j].name # n
        IN st.rows[last].price]

\* existing_results.get(product_name, {}).get(column)
ExistingPrice(ex, name, m) == IF name \in DOMAIN ex THEN ex[name][m] ELSE None

\* str.capitalize() on the marketplace names a caller may pass
Capitalize(s) ==
    CASE s \in {"teknosa", "TEKNOSA", "Teknosa"} -> "Teknosa"
      [] s \in {"hepsiburada", "Hepsiburada"} -> "Hepsiburada"
      [] s \in {"trendyol", "TRENDYOL"} -> "Trendyol"
      [] s \in {"amazon", "Amazon"} -> "Amazon"
      [] s = "n11" -> "N11"
      [] OTHER -> s

SelectionInputs == {None, Some("teknosa"), Some("Hepsiburada"), Some("TRENDYOL"),
                    Some("amazon"), Some("n11")}

SelectMarketplaces_reversed(sel) ==
    IF sel = None THEN <<"Amazon", "Trendyol", "Hepsiburada", "Teknosa">>
    ELSE IF Capitalize(sel[1]) \in Marketplaces THEN <<Capitalize(sel[1])>>
    ELSE <<>>

\* marketplace selection of process_excel_file; <<>> stands for the early `return []`
SelectMarketplaces(sel) ==
    IF sel = None THEN all_marketplaces
    ELSE IF Capitalize(sel[1]) \in Marketplaces THEN <<Capitalize(sel[1])>>
    ELSE <<>>

\* product lists: the prefixes of a, b, a, b, ... (a name may repeat: the reader
\* of the input file removes no duplicates)
NameAt(i) == IF i % 2 = 1 THEN "a" ELSE "b"
ProductLists == {[i \in 1..n |-> NameAt(i)] : n \in 0..MaxProducts}

\* results.xlsx as earlier runs of this program leave it
EarlierResults ==
    { <<>>,
      <<Row("a", [m \in Marketplaces |-> OldPrice])>>,
      <<Row("a", NoPrices), Row("a", [m \in Marketplaces |-> OldPrice])>> }
InitialStores == {SaveResults(rs, AbsentStore) : rs \in EarlierResults}

SearchIdle ==
    /\ spc = "idle" /\ marketplace = "" /\ mm_price = None /\ ean = None
    /\ items = <<>> /\ cls_idx = 0
    /\ product_page_urls = <<>> /\ marketplace_urls = <<>> /\ category_page_urls = <<>>
    /\ url_idx = 0 /\ tried = <<>> /\ direct = <<>> /\ result = None /\ world = ""
ExtractIdle ==
    /\ epc = "idle" /\ extractor = "" /\ attempt = 0 /\ fetches = <<>> /\ outcome = None
    /\ use_selenium = FALSE /\ impersonating = FALSE
SessionIdle ==
    /\ smode = "" /\ sphase = "idle" /\ jobs = <<>> /\ jpc = <<>>
    /\ permits = 0 /\ pool = None /\ live = {} /\ started = 0
CallIdle == call = "" /\ args = <<>> /\ env = None /\ ret = None
LaterIdle == SessionIdle /\ CallIdle
BatchIdle ==
    /\ bpc = "idle" /\ products = <<>> /\ selected = <<>> /\ existing_results = <<>>
    /\ product_idx = 0 /\ mp_idx = 0 /\ product_result = Row("", NoPrices)
    /\ all_results = <<>> /\ store = AbsentStore /\ calls = 0 /\ raises = 0
    /\ hits = 0 /\ flushes = 0

\* process_excel_file up to the product loop (3527-3587)
StartBatch ==
    /\ bpc = "start"
    /\ existing_results' = (IF store.exists THEN LoadExisting(store) ELSE <<>>)
    /\ bpc' = IF products = <<>> \/ selected = <<>> THEN "returned" ELSE "product"
    /\ product_idx' = 1
    /\ UNCHANGED <<products, selected, mp_idx, product_result, all_results, store,
                   calls, raises, hits, flushes>>

\* head of the product loop: product_result from the existing values (3590-3604)
BeginProduct ==
    /\ bpc = "product"
    /\ product_idx <= Len(products)
    /\ product_result' = Row(products[product_idx],
            [m \in Marketplaces |->
                ExistingPrice(existing_results, products[product_idx], m)])
    /\ mp_idx' = 1
    /\ bpc' = "pair"
    /\ UNCHANGED <<products, selected, existing_results, product_idx, all_results,
                   store, calls, raises, hits, flushes>>

\* what search_product_with_semaphore hands back to the batch
SearchReturns ==
    {[success |-> TRUE, price |-> Some(p)] : p \in FoundPrices}
    \cup {[success |-> TRUE, price |-> None], [success |-> FALSE, price |-> None]}

\* `price = result.get('price') if result.get('success') else None`
PriceOf(r) == IF r.success THEN r.price ELSE None

\* one marketplace of one product: the column is cleared, then set (3607-3638)
ResolvePair ==
    /\ bpc = "pair"
    /\ mp_idx <= Len(selected)
    /\ \E r \in SearchReturns :
        /\ PriceOf(r) # None => hits < MaxHits
        /\ hits' = IF PriceOf(r) # None THEN hits + 1 ELSE hits
        /\ product_result' = [product_result EXCEPT !.price[selected[mp_idx]] = PriceOf(r)]
    /\ calls' = calls + 1
    /\ mp_idx' = mp_idx + 1
    /\ UNCHANGED <<bpc, products, selected, existing_results, product_idx, all_results,
                   store, raises, flushes>>

\* a mutant of the handler: the exception leaves the product loop
ResolvePairRaises_abort ==
    /\ bpc = "pair"
    /\ mp_idx <= Len(selected)
    /\ raises < MaxRaises
    /\ product_result' = [product_result EXCEPT !.price[selected[mp_idx]] = None]
    /\ calls' = calls + 1
    /\ raises' = raises + 1
    /\ bpc' = "returned"
    /\ UNCHANGED <<products, selected, existing_results, product_idx, mp_idx, all_results,
                   store, hits, flushes>>

\* the same pair when the awaited call raises: `except Exception` logs and goes on (3640-3642)
ResolvePairRaises ==
    /\ bpc = "pair"
    /\ mp_idx <= Len(selected)
    /\ raises < MaxRaises
    /\ product_result' = [product_result EXCEPT !.price[selected[mp_idx]] = None]
    /\ calls' = calls + 1
    /\ raises' = raises + 1
    /\ mp_idx' = mp_idx + 1
    /\ UNCHANGED <<bpc, products, selected, existing_results, product_idx, all_results,
                   store, hits, flushes>>

\* end of the product: append the row, checkpoint every 5th product (3644-3660)
EndProduct_noFlush ==
    /\ bpc = "pair"
    /\ mp_idx > Len(selected)
    /\ all_results' = Append(all_results, product_result)
    /\ product_idx' = product_idx + 1
    /\ bpc' = IF product_idx = Len(products) THEN "returned" ELSE "product"
    /\ UNCHANGED <<products, selected, existing_results, mp_idx, product_result,
                   calls, raises, hits, store, flushes>>
EndProduct ==
    /\ bpc = "pair"
    /\ mp_idx > Len(selected)
    /\ all_results' = Append(all_results, product_result)
    /\ IF product_idx % CheckpointEvery = 0
       THEN /\ store' = SaveResults(all_results', store)
            /\ flushes' = flushes + 1
       ELSE UNCHANGED <<store, flushes>>
    /\ product_idx' = product_idx + 1
    /\ bpc' = IF product_idx = Len(products) THEN "returned" ELSE "product"
    /\ UNCHANGED <<products, selected, existing_results, mp_idx, product_result,
                   calls, raises, hits>>

\* main after process_excel_file returned: `if results: save_results_to_excel(results)`
MainSave ==
    /\ bpc = "returned"
    /\ store' = SaveResults(all_results, store)
    /\ flushes' = IF all_results # <<>> THEN flushes + 1 ELSE flushes
    /\ bpc' = "saved"
    /\ UNCHANGED <<products, selected, existing_results, product_idx, mp_idx,
                   product_result, all_results, calls, raises, hits>>

InitBatch ==
    /\ bpc = "start"
    /\ products \in ProductLists
    /\ \E sel \in SelectionInputs : selected = SelectMarketplaces(sel)
    /\ store \in InitialStores
    /\ existing_results = <<>>
    /\ product_idx = 0 /\ mp_idx = 0 /\ product_result = Row("", NoPrices)
    /\ all_results = <<>> /\ calls = 0 /\ raises = 0 /\ hits = 0 /\ flushes = 0
    /\ SearchIdle /\ ExtractIdle /\ LaterIdle

NextBatch ==
    \/ StartBatch /\ UNCHANGED <<searchVars, extractVars, laterVars>>
    \/ BeginProduct /\ UNCHANGED <<searchVars, extractVars, laterVars>>
    \/ ResolvePair /\ UNCHANGED <<searchVars, extractVars, laterVars>>
    \/ ResolvePairRaises /\ UNCHANGED <<searchVars, extractVars, laterVars>>
    \/ EndProduct /\ UNCHANGED <<searchVars, extractVars, laterVars>>
    \/ MainSave /\ UNCHANGED <<searchVars, extractVars, laterVars>>

SpecBatch == InitBatch /\ [][NextBatch]_vars

(***************************************************************************)
(*                 Properties of the batch orchestrator                    *)
(***************************************************************************)

\* the rows of `rs` named `name` that carry a price for marketplace m
PricedRows(rs, name, m) == {k \in 1..Len(rs) : rs[k].name = name /\ rs[k].price[m] # None}
\* the price the last such row carries
LastPrice(rs, name, m) ==
    LET K == PricedRows(rs, name, m)
        k == CHOOSE x \in K : \A y \in K : y <= x
    IN rs[k].price[m]

\* C1: a merge into the ResultStore never replaces a stored non-null price with null:
\* every stored row stays in place, a null new price leaves the stored price as it
\* was, and a non-null new price overwrites it (on the row the merge addresses, the
\* first of that name).
C1_MergeKeepsPrices ==
    [][store.exists =>
        /\ store'.exists /\ Len(store'.rows) >= Len(store.rows)
        /\ \A i \in 1..Len(store.rows) : \A m \in Marketplaces :
            LET old == store.rows[i].price[m]
                new == store'.rows[i].price[m]
                name == store.rows[i].name
            IN /\ store'.rows[i].name = name
               /\ old # None => new # None
               /\ IF flushes' > flushes /\ i = FirstIndex(store.rows, name)
                     /\ PricedRows(all_results', name, m) # {}
                  THEN new = LastPrice(all_results', name, m)
                  ELSE new = old]_vars

\* C1 witness: a flush met a stored price with a null new price and kept it, and met
\* another stored price with a non-null new price and overwrote it
C1_Witness ==
    /\ bpc = "saved" /\ flushes > 0
    /\ \E i \in 1..Len(store.rows) : \E k \in 1..Len(all_results) : \E m, m2 \in Marketplaces :
        /\ all_results[k].name = store.rows[i].name
        /\ PricedRows(all_results, store.rows[i].name, m) = {}
        /\ store.rows[i].price[m] = OldPrice
        /\ all_results[k].price[m2] \in {Some(p) : p \in FoundPrices}
        /\ store.rows[i].price[m2] = all_results[k].price[m2]
        /\ existing_results # <<>>
        /\ existing_results[store.rows[i].name][m2] = OldPrice

Flushed(st, rs, i) ==
    /\ st.exists
    /\ \E r \in 1..Len(st.rows) :
        /\ st.rows[r].name = rs[i].name
        /\ \A m \in Marketplaces :
            rs[i].price[m] # None => st.rows[r].price[m] # None

C23_OtherColumnsKept ==
    [][(Len(selected) = 1 /\ store.exists) =>
        \A i \in 1..Len(store.rows) : \A m \in Marketplaces \ {selected[1]} :
            /\ i <= Len(store'.rows)
            /\ store'.rows[i].name = store.rows[i].name
            /\ store'.rows[i].price[m] = store.rows[i].price[m]]_vars

\* C29: within one product the selected marketplaces are resolved one after another
\* in the order Teknosa, Hepsiburada, Trendyol, Amazon: the k-th resolution of a
\* product is that of the k-th selected marketplace and begins when the k-1 before
\* it have returned or raised, and the product's row is appended only when all its
\* marketplaces are done.
C29_SequentialFixedOrder ==
    /\ [](\A i, j \in 1..Len(selected) : i < j =>
            \E a, b \in 1..Len(all_marketplaces) :
                a < b /\ all_marketplaces[a] = selected[i] /\ all_marketplaces[b] = selected[j])
    /\ [][calls' > calls =>
            /\ calls' = calls + 1 /\ bpc = "pair" /\ mp_idx \in 1..Len(selected)
            /\ calls = (product_idx - 1) * Len(selected) + (mp_idx - 1)
            /\ mp_idx' = mp_idx + 1 /\ product_idx' = product_idx
            /\ all_results' = all_results
            /\ \A m \in Marketplaces \ {selected[mp_idx]} :
                    product_result'.price[m] = product_result.price[m]]_vars
    /\ [][all_results' # all_results =>
            /\ mp_idx = Len(selected) + 1
            /\ calls = product_idx * Len(selected) /\ calls' = calls
            /\ all_results' = Append(all_results, product_result)]_vars

\* C29 witness: the first product's row was appended after four resolutions, the
\* last of which, Amazon's, found a price
C29_Witness ==
    /\ selected = all_marketplaces /\ Len(all_results) = 1 /\ calls = 4
    /\ all_results[1].price["Amazon"] \in {Some(p) : p \in FoundPrices}
    /\ all_results[1].price["Teknosa"] = None

(***************************************************************************)
(*                      SEARCH ORCHESTRATOR                                *)
(***************************************************************************)

\* ---- bounds of the search model ----
\* items a full first page holds (the source asks for num=10, and for a second page
\* of half that size only when the first page came back full)
MaxFirstPage == 2
MaxSecondPage == MaxFirstPage \div 2

\* `if similarity < 0.40` (process_excel.py:3157, 3200), in percent
SimilarityReject == 40
\* ---- the double-precision arithmetic of the price check ----
\* Prices are counted in kurus; Python holds them as IEEE-754 doubles of the TRY
\* amount. A natural number of any size is a sequence of digits of base 2^15,
\* lowest digit first, without leading zeros.
Base == 32768

RECURSIVE Norm(_)
Norm(x) == IF x # <<>> /\ x[Len(x)] = 0 THEN Norm(SubSeq(x, 1, Len(x) - 1)) ELSE x

RECURSIVE BigOf(_)
BigOf(n) == IF n = 0 THEN <<>> ELSE <<n % Base>> \o BigOf(n \div Base)

\* x * s + c for a digit s
RECURSIVE MulSmall(_, _, _)
MulSmall(x, s, c) ==
    IF x = <<>> THEN BigOf(c)
    ELSE LET t == x[1] * s + c IN <<t % Base>> \o MulSmall(Tail(x), s, t \div Base)

RECURSIVE AddBig(_, _, _)
AddBig(x, y, c) ==
    IF x = <<>> /\ y = <<>> THEN BigOf(c)
    ELSE LET a == IF x = <<>> THEN 0 ELSE x[1]
             b == IF y = <<>> THEN 0 ELSE y[1]
             t == a + b + c
         IN <<t % Base>> \o AddBig(IF x = <<>> THEN <<>> ELSE Tail(x),
                                   IF y = <<>> THEN <<>> ELSE Tail(y), t \div Base)

RECURSIVE MulBig(_, _)
MulBig(x, y) ==
    IF y = <<>> THEN <<>>
    ELSE LET rest == MulBig(x, Tail(y))
         IN Norm(AddBig(MulSmall(x, y[1], 0),
                        IF rest = <<>> THEN <<>> ELSE <<0>> \o rest, 0))

LeBig(x, y) ==
    IF Len(x) # Len(y) THEN Len(x) < Len(y)
    ELSE LET D == {i \in 1..Len(x) : x[i] # y[i]}
         IN D = {} \/ LET i == CHOOSE k \in D : \A j \in D : j <= k IN x[i] < y[i]

Odd(x) == x # <<>> /\ x[1] % 2 = 1

\* x * 2^k
Shl(x, k) ==
    IF x = <<>> THEN <<>>
    ELSE [i \in 1..(k \div 15) |-> 0] \o Norm(MulSmall(x, 2^(k % 15), 0))

\* quotient and remainder of x by a divisor d below the base
RECURSIVE DivSmall(_, _)
DivSmall(x, d) ==
    IF x = <<>> THEN [q |-> <<>>, r |-> 0]
    ELSE LET hi == DivSmall(Tail(x), d)
             t == hi.r * Base + x[1]
         IN [q |-> <<t \div d>> \o hi.q, r |-> t % d]

RECURSIVE BitsOf(_)
BitsOf(n) == IF n = 0 THEN 0 ELSE 1 + BitsOf(n \div 2)
BitLen(x) == IF x = <<>> THEN 0 ELSE 15 * (Len(x) - 1) + BitsOf(x[Len(x)])

\* bits of a double's significand
Precision == 53

\* x \div 2^k, bit i of x, and whether a bit of x below bit k is set
Shr(x, k) ==
    Norm(DivSmall(SubSeq(x, (k \div 15) + 1, Len(x)), 2^(k % 15)).q)
Bit(x, i) ==
    IF (i \div 15) + 1 > Len(x) THEN 0 ELSE (x[(i \div 15) + 1] \div 2^(i % 15)) % 2
AnyBitBelow(x, k) ==
    \/ \E i \in 1..(k \div 15) : i <= Len(x) /\ x[i] # 0
    \/ (k \div 15) + 1 <= Len(x) /\ x[(k \div 15) + 1] % 2^(k % 15) # 0

\* m with its s >= 1 lowest bits dropped, rounded to nearest, ties to even
RoundShift(m, s, inexact) ==
    LET q == Shr(m, s)
        guard == Bit(m, s - 1) = 1
        sticky == inexact \/ AnyBitBelow(m, s - 1)
    IN IF guard /\ (sticky \/ Odd(q)) THEN Norm(AddBig(q, <<1>>, 0)) ELSE q

\* the double nearest to m * 2^e (plus a positive amount below one unit of m if
\* `inexact`), as a significand and an exponent
Double(m, e, inexact) ==
    LET s == BitLen(m) - Precision
    IN IF s <= 0 THEN [m |-> m, e |-> e]
       ELSE [m |-> RoundShift(m, s, inexact), e |-> e + s]

\* binary digits kept below the point while a decimal is converted
GuardBits == 70

\* the double Python holds for n hundredths: float("a.bc"), the literals 0.65, 1.35
FromHundredths(n) ==
    LET d == DivSmall(Shl(BigOf(n), GuardBits), 100)
    IN Double(Norm(d.q), 0 - GuardBits, d.r # 0)

\* a * b and a <= b on positive doubles
MulF(a, b) == Double(MulBig(a.m, b.m), a.e + b.e, FALSE)
LeF(a, b) ==
    IF a.e >= b.e THEN LeBig(Shl(a.m, a.e - b.e), b.m)
    ELSE LeBig(a.m, Shl(b.m, b.e - a.e))

\* the literals of lower_bound = mm_price * 0.65, upper_bound = mm_price * 1.35
\* (3502-3503), in hundredths
LowerPercent == 65
UpperPercent == 135

\* is_price_valid(found_price, mm_price) on optional prices in kurus
is_price_valid(found, mm) ==
    IF mm = None \/ mm[1] <= 0 THEN TRUE
    ELSE IF found = None \/ found[1] <= 0 THEN FALSE
    ELSE LET found_price == FromHundredths(found[1])
             ref_price == FromHundredths(mm[1])
             lower_bound == MulF(ref_price, FromHundredths(LowerPercent))
             upper_bound == MulF(ref_price, FromHundredths(UpperPercent))
         IN LeF(lower_bound, found_price) /\ LeF(found_price, upper_bound)

\* ---- the prices of the models, in kurus ----
\* reference price of the search model
RefPrice == Some(100000)
\* a price below the band of RefPrice and one on its lower edge
SamplePrices == {Some(64900), Some(65000)}
\* found prices and reference prices handed to is_price_valid alone
FoundInputs ==
    {None} \cup {Some(v) : v \in {0 - 100, 0, 100, 195, 196, 24300, 24301, 64900, 65000,
                                  100000, 135000, 135100}}
ReferenceInputs == {None} \cup {Some(v) : v \in {0 - 100000, 0, 300, 18000, 100000}}

\* is_price_valid over the prices of the models, computed once
PriceVerdicts ==
    [found \in FoundInputs \cup SamplePrices, mm \in ReferenceInputs \cup {RefPrice} |->
        is_price_valid(found, mm)]
IsPriceValid(found, mm) == PriceVerdicts[found, mm]

\* `if mm_price and not is_price_valid(price, mm_price)`: the candidate is rejected
FailsPriceCheck(found, mm) ==
    /\ mm # None /\ mm[1] # 0
    /\ ~IsPriceValid(found, mm)

\* `if found_title and marketplace_lower == "amazon"` ... `if similarity < 0.40`
\* a title is the score calculate_similarity gives it against the product name
FailsSimilarityCheck(mp, title) ==
    /\ title # None /\ mp = "Amazon"
    /\ title[1] < SimilarityReject

\* ---- the shape of a result URL: which path patterns it matches ----
\* prod: one of the marketplace's product patterns matches ("/dp/", "/p/", "-p-",
\* on Hepsiburada also five hyphens without "?sayfa="), cat: one of its category
\* patterns matches ("/s?", "/sr", "-bc-", "/liste", ...), hyphens: link.count("-")
Shape(prod, cat, hyphens) == [prod |-> prod, cat |-> cat, hyphens |-> hyphens]
AllShapes == {Shape(TRUE, FALSE, 0), Shape(FALSE, TRUE, 0), Shape(TRUE, TRUE, 0),
              Shape(FALSE, FALSE, 0), Shape(FALSE, FALSE, 3)}
OrganicShapes == {Shape(TRUE, FALSE, 0), Shape(FALSE, TRUE, 0), Shape(FALSE, FALSE, 0)}

\* is_product_page and is_category_page as the marketplace's branch computes them
\* (2886-2900, 2935-2936, 2961-2979, 3009-3010)
IsProductPage(mp, sh) == sh.prod
IsCategoryPage(mp, sh) == sh.cat

\* a search item: does its real link lie on the marketplace's domain, does
\* is_sponsored_link(item) hold, and the shape of the link
Item(onsite, sponsored, sh) == [onsite |-> onsite, sponsored |-> sponsored, shape |-> sh]
ItemsOf(w) ==
    IF w = "shapes"
    THEN {Item(TRUE, sp, sh) : sp \in BOOLEAN, sh \in AllShapes}
            \cup {Item(FALSE, sp, Shape(FALSE, FALSE, 0)) : sp \in BOOLEAN}
    ELSE {Item(TRUE, FALSE, sh) : sh \in OrganicShapes}
            \cup {Item(FALSE, FALSE, Shape(FALSE, FALSE, 0))}

\* the list an item goes to in the classification loop (2870-3041):
\* "product" product_page_urls, "normal" marketplace_urls, "category"
\* category_page_urls, "drop" none
Classify_keepSponsored(mp, it) ==
    IF ~it.onsite THEN "drop"
    ELSE IF IsProductPage(mp, it.shape) THEN "product"
    ELSE IF IsCategoryPage(mp, it.shape) THEN "category"
    ELSE "normal"
Classify(mp, it) ==
    LET prod == IsProductPage(mp, it.shape)
        cat == IsCategoryPage(mp, it.shape)
    IN
    IF ~it.onsite THEN "drop"
    ELSE IF mp \in {"Amazon", "Teknosa"} THEN
        IF it.sponsored /\ prod THEN "product"
        ELSE IF it.sponsored /\ cat THEN "drop"
        ELSE IF it.sponsored THEN "drop"
        ELSE IF prod THEN "product"
        ELSE IF cat THEN "category"
        ELSE "normal"
    ELSE IF mp = "Trendyol" THEN
        IF it.sponsored /\ prod THEN "normal"
        ELSE IF it.sponsored /\ cat THEN "drop"
        ELSE IF it.sponsored THEN "drop"
        ELSE IF cat THEN "drop"
        ELSE "normal"
    ELSE \* Hepsiburada
        IF it.sponsored /\ prod THEN "normal"
        ELSE IF it.sponsored /\ cat THEN "drop"
        ELSE IF it.sponsored THEN
            (IF ~cat /\ it.shape.hyphens >= 3 THEN "normal" ELSE "drop")
        ELSE IF cat THEN "drop"
        ELSE "normal"

\* the candidate list after the reordering of 3043-3054
Prioritize_rankOrder(mp, prod, normal, cat) == normal \o prod
Prioritize(mp, prod, normal, cat) ==
    IF mp = "Amazon" THEN prod \o normal
    ELSE IF mp = "Teknosa" THEN prod \o normal \o cat
    ELSE normal

\* the dict search_product returns
Failure(msg) ==
    Some([url |-> None, price |-> None, currency |-> None, success |-> FALSE,
          error |-> Some(msg)])
Success(url, price, currency) ==
    Some([url |-> url, price |-> price, currency |-> currency, success |-> TRUE,
          error |-> None])

\* ---- what the environment may answer ----
\* titles scoring below and at the similarity threshold
SampleTitles == {Some(39), Some(40)}

\* the dict a price extractor returns for a candidate; only the Trendyol and Amazon
\* extractors return a title
ExtractFailed == [success |-> FALSE, price |-> None, currency |-> None, title |-> None]
Extracted(price, title) ==
    [success |-> TRUE, price |-> price, currency |-> Some("TRY"), title |-> title]
ExtractorResults(mp, w) ==
    IF w = "shapes" THEN {ExtractFailed, Extracted(Some(65000), None)}
    ELSE {ExtractFailed}
         \cup {Extracted(p, None) : p \in SamplePrices}
         \cup (IF mp = "Amazon"
               THEN {Extracted(p, t) : p \in SamplePrices, t \in SampleTitles}
               ELSE {})

\* the dict search_amazon_direct returns (2454-2567): by EAN a title and a price, by
\* name a title and possibly no price
DirectUrl == Some(0)
DirectFailed ==
    [success |-> FALSE, url |-> None, price |-> None, currency |-> None, title |-> None]
DirectFound(url, price, title) ==
    [success |-> TRUE, url |-> url, price |-> price, currency |-> Some("TRY"), title |-> title]
AmazonDirectResults(w) ==
    IF w = "shapes" THEN {DirectFailed, DirectFound(DirectUrl, Some(65000), Some(40))}
    ELSE {DirectFailed}
         \cup {DirectFound(DirectUrl, p, t) : p \in SamplePrices \cup {None}, t \in SampleTitles}
\* the dict search_marketplace_direct returns (2570-2741)
MarketplaceDirectResults(mp, w) ==
    IF mp = "Amazon" THEN AmazonDirectResults(w)
    ELSE IF mp = "Teknosa"
    THEN {DirectFailed} \cup
         (IF w = "shapes" THEN {DirectFound(DirectUrl, Some(65000), Some(40))}
          ELSE {DirectFound(DirectUrl, p, t) : p \in SamplePrices, t \in SampleTitles})
    ELSE {DirectFailed} \cup
         (IF w = "shapes" THEN {DirectFound(None, Some(65000), None)}
          ELSE {DirectFound(None, p, None) : p \in SamplePrices})

\* an entry of the log of direct searches
DirectCall(fn, path, e, r) == [fn |-> fn, path |-> path, ean |-> e, res |-> r]

\* the ranks (positions in the search response) of the items Classify sends to a list
RanksOf(mp, its, kind) ==
    SelectSeq([r \in 1..Len(its) |-> r], LAMBDA r : Classify(mp, its[r]) = kind)

\* ---- search_product, step by step ----
\* the first Custom Search request (2764-2780) and the handlers of its exceptions
\* (3244-3267); a full first page is followed by the request for the second
QuerySearch ==
    /\ spc = "query"
    /\ \/ /\ result' = Failure("Google API error")
          /\ spc' = "done"
          /\ UNCHANGED items
       \/ /\ result' = Failure("Unexpected error")
          /\ spc' = "done"
          /\ UNCHANGED items
       \/ /\ \E n1 \in 0..MaxFirstPage :
                /\ items' \in [1..n1 -> ItemsOf(world)]
                /\ spc' = IF n1 = MaxFirstPage THEN "page2" ELSE "items"
          /\ UNCHANGED result
    /\ UNCHANGED <<marketplace, mm_price, ean, cls_idx, product_page_urls,
                   marketplace_urls, category_page_urls, url_idx, tried, direct, world>>

SecondPage_fails ==
    /\ spc = "page2"
    /\ \/ /\ result' = Failure("Google API error")
          /\ spc' = "done"
          /\ UNCHANGED items
       \/ /\ \E n2 \in 0..MaxSecondPage :
             \E more \in [1..n2 -> ItemsOf(world)] : items' = items \o more
          /\ spc' = "items"
          /\ UNCHANGED result
    /\ UNCHANGED <<marketplace, mm_price, ean, cls_idx, product_page_urls,
                   marketplace_urls, category_page_urls, url_idx, tried, direct, world>>

\* the second Custom Search request (2782-2801): its items are appended; any
\* exception of it is logged and the first page's items stay as they are
SecondPage ==
    /\ spc = "page2"
    /\ \/ UNCHANGED items
       \/ \E n2 \in 0..MaxSecondPage :
          \E more \in [1..n2 -> ItemsOf(world)] : items' = items \o more
    /\ spc' = "items"
    /\ UNCHANGED <<marketplace, mm_price, ean, cls_idx, product_page_urls,
                   marketplace_urls, category_page_urls, url_idx, tried, direct, result,
                   world>>

\* no item at all, Amazon: search_amazon_direct(product_name), result taken as it is
NoItemsAmazon ==
    /\ spc = "items" /\ items = <<>> /\ marketplace = "Amazon"
    /\ \E r \in AmazonDirectResults(world) :
        /\ direct' = Append(direct, DirectCall("search_amazon_direct", "no_items", None, r))
        /\ result' = IF r.success THEN Success(r.url, r.price, r.currency)
                     ELSE Failure("No search results found and Amazon direct search failed")
    /\ spc' = "done"
    /\ UNCHANGED <<marketplace, mm_price, ean, items, cls_idx, product_page_urls,
                   marketplace_urls, category_page_urls, url_idx, tried, world>>

\* no item at all, any other marketplace
NoItemsOther ==
    /\ spc = "items" /\ items = <<>> /\ marketplace # "Amazon"
    /\ result' = Failure("No search results found")
    /\ spc' = "done"
    /\ UNCHANGED <<marketplace, mm_price, ean, items, cls_idx, product_page_urls,
                   marketplace_urls, category_page_urls, url_idx, tried, direct, world>>

\* the classification loop over all items and the reordering that follows it
ClassifyItems ==
    /\ spc = "items" /\ items # <<>>
    /\ LET prod == RanksOf(marketplace, items, "product")
           normal == RanksOf(marketplace, items, "normal")
           cat == RanksOf(marketplace, items, "category")
           urls == Prioritize(marketplace, prod, normal, cat)
       IN /\ product_page_urls' = prod
          /\ category_page_urls' = cat
          /\ marketplace_urls' = urls
          /\ spc' = IF urls = <<>> THEN "nolinks" ELSE "loop"
    /\ cls_idx' = Len(items)
    /\ url_idx' = 1
    /\ UNCHANGED <<marketplace, mm_price, ean, items, tried, direct, result, world>>

\* what search_product returns for a successful direct search; formatting a missing
\* price in the warning of a failed price check raises, which the outer handler reports
DirectVerdict(r, checkTitle, failMsg) ==
    IF ~r.success THEN Failure(failMsg)
    ELSE IF FailsPriceCheck(r.price, mm_price)
    THEN (IF r.price = None THEN Failure("Unexpected error")
          ELSE Failure("Price validation failed (MM Price check)"))
    ELSE IF checkTitle /\ FailsSimilarityCheck(marketplace, r.title)
    THEN Failure("Product similarity too low")
    ELSE Success(r.url, r.price, r.currency)

\* no link of the marketplace among the items: search_marketplace_direct
NoLinksFallback ==
    /\ spc = "nolinks"
    /\ \E r \in MarketplaceDirectResults(marketplace, world) :
        /\ direct' = Append(direct, DirectCall("search_marketplace_direct", "no_links", ean, r))
        /\ result' = DirectVerdict(r, FALSE,
                        "No links found in Google results and direct search failed")
    /\ spc' = "done"
    /\ UNCHANGED <<marketplace, mm_price, ean, items, cls_idx, product_page_urls,
                   marketplace_urls, category_page_urls, url_idx, tried, world>>

\* one iteration of the candidate loop on a Teknosa category page: skipped
SkipCategoryCandidate ==
    /\ spc = "loop" /\ url_idx <= Len(marketplace_urls)
    /\ marketplace = "Teknosa"
    /\ IsCategoryPage(marketplace, items[marketplace_urls[url_idx]].shape)
    /\ url_idx' = url_idx + 1
    /\ UNCHANGED <<spc, marketplace, mm_price, ean, items, cls_idx, product_page_urls,
                   marketplace_urls, category_page_urls, tried, direct, result, world>>

\* one iteration of the candidate loop: extract, validate, accept or go on
TryCandidate_giveUp ==
    /\ spc = "loop" /\ url_idx <= Len(marketplace_urls)
    /\ ~(marketplace = "Teknosa"
         /\ IsCategoryPage(marketplace, items[marketplace_urls[url_idx]].shape))
    /\ \E r \in ExtractorResults(marketplace, world) :
        LET c == marketplace_urls[url_idx] IN
        /\ tried' = Append(tried, [rank |-> c, res |-> r])
        /\ result' = IF /\ r.success
                        /\ ~FailsPriceCheck(r.price, mm_price)
                        /\ ~FailsSimilarityCheck(marketplace, r.title)
                     THEN Success(Some(c), r.price, r.currency)
                     ELSE Failure("Price validation failed (MM Price check)")
        /\ spc' = "done"
        /\ UNCHANGED url_idx
    /\ UNCHANGED <<marketplace, mm_price, ean, items, cls_idx, product_page_urls,
                   marketplace_urls, category_page_urls, direct, world>>
TryCandidate ==
    /\ spc = "loop" /\ url_idx <= Len(marketplace_urls)
    /\ ~(marketplace = "Teknosa"
         /\ IsCategoryPage(marketplace, items[marketplace_urls[url_idx]].shape))
    /\ \E r \in ExtractorResults(marketplace, world) :
        LET c == marketplace_urls[url_idx] IN
        /\ tried' = Append(tried, [rank |-> c, res |-> r])
        /\ IF /\ r.success
              /\ ~FailsPriceCheck(r.price, mm_price)
              /\ ~FailsSimilarityCheck(marketplace, r.title)
           THEN /\ result' = Success(Some(c), r.price, r.currency)
                /\ spc' = "done"
                /\ UNCHANGED url_idx
           ELSE /\ url_idx' = url_idx + 1
                /\ UNCHANGED <<result, spc>>
    /\ UNCHANGED <<marketplace, mm_price, ean, items, cls_idx, product_page_urls,
                   marketplace_urls, category_page_urls, direct, world>>

\* the loop ended with price_value None: search_marketplace_direct
AllRejectedFallback ==
    /\ spc = "loop" /\ url_idx > Len(marketplace_urls)
    /\ \E r \in MarketplaceDirectResults(marketplace, world) :
        /\ direct' = Append(direct, DirectCall("search_marketplace_direct", "all_rejected", ean, r))
        /\ result' = DirectVerdict(r, TRUE,
                        "No valid price found in Google results and direct search failed")
    /\ spc' = "done"
    /\ UNCHANGED <<marketplace, mm_price, ean, items, cls_idx, product_page_urls,
                   marketplace_urls, category_page_urls, url_idx, tried, world>>

SampleEans == {None, Some("8690000000001")}

InitSearch ==
    /\ BatchIdle /\ ExtractIdle /\ LaterIdle
    /\ spc = "query"
    /\ world \in {"shapes", "outcomes"}
    /\ marketplace \in Marketplaces
    /\ mm_price \in (IF world = "shapes" THEN {None} ELSE {None, RefPrice})
    /\ ean \in (IF world = "shapes" THEN {None} ELSE SampleEans)
    /\ items = <<>> /\ cls_idx = 0
    /\ product_page_urls = <<>> /\ marketplace_urls = <<>> /\ category_page_urls = <<>>
    /\ url_idx = 0 /\ tried = <<>> /\ direct = <<>> /\ result = None

NextSearch ==
    \/ QuerySearch /\ UNCHANGED <<batchVars, extractVars, laterVars>>
    \/ SecondPage /\ UNCHANGED <<batchVars, extractVars, laterVars>>
    \/ NoItemsAmazon /\ UNCHANGED <<batchVars, extractVars, laterVars>>
    \/ NoItemsOther /\ UNCHANGED <<batchVars, extractVars, laterVars>>
    \/ ClassifyItems /\ UNCHANGED <<batchVars, extractVars, laterVars>>
    \/ NoLinksFallback /\ UNCHANGED <<batchVars, extractVars, laterVars>>
    \/ SkipCategoryCandidate /\ UNCHANGED <<batchVars, extractVars, laterVars>>
    \/ TryCandidate /\ UNCHANGED <<batchVars, extractVars, laterVars>>
    \/ AllRejectedFallback /\ UNCHANGED <<batchVars, extractVars, laterVars>>

SpecSearch == InitSearch /\ [][NextSearch]_vars

(***************************************************************************)
(*                 PROPERTIES OF THE SEARCH ORCHESTRATOR                   *)
(***************************************************************************)

\* the page type of a link: product before category, as the branches test them
PageType(mp, sh) ==
    IF IsProductPage(mp, sh) THEN "product"
    ELSE IF IsCategoryPage(mp, sh) THEN "category"
    ELSE "unknown"
TypeRank(t) == IF t = "product" THEN 1 ELSE IF t = "unknown" THEN 2 ELSE 3
TypeAt(i) == PageType(marketplace, items[marketplace_urls[i]].shape)

\* a candidate's extraction passes: success, price check and similarity check
Passes(r) ==
    /\ r.success
    /\ ~FailsPriceCheck(r.price, mm_price)
    /\ ~FailsSimilarityCheck(marketplace, r.title)

\* the candidates the loop does not skip, in list order
Fetchable ==
    SelectSeq(marketplace_urls,
              LAMBDA c : ~(marketplace = "Teknosa"
                           /\ IsCategoryPage(marketplace, items[c].shape)))

\* C2: every result of search_product with success = true carries a price and a
\* currency; every result with success = false carries an error and no price.
C2_ResultWellFormed ==
    result # None =>
        /\ result[1].success => result[1].price # None /\ result[1].currency # None
        /\ ~result[1].success => result[1].error # None /\ result[1].price = None

\* C4: once the web search has answered, search_product returns a failure only
\* after a direct search has run - also when the answer holds no item at all or no
\* link of the marketplace.
C4_FallbackBeforeFailure ==
    [][(spc \in {"items", "nolinks", "loop"} /\ result' # None /\ ~result'[1].success)
        => direct' # <<>>]_vars

\* C5: a direct-search result becomes the result of search_product only if it passes
\* the checks a candidate passes: the reference-price check and, for Amazon, a
\* title similarity of at least 0.40.
C5_DirectChecked ==
    [][(direct' # direct /\ result' # None /\ result'[1].success)
        => Passes(Last(direct').res)]_vars

\* C6: the candidates are fetched one at a time in list order; every candidate
\* fetched before the last one was rejected; a candidate that passes ends the loop
\* and gives the result its URL and price; nothing is fetched after a result; a
\* failure is returned only after every candidate has been fetched.
C6_FirstPassingCandidate ==
    /\ [](/\ Len(tried) <= Len(Fetchable)
          /\ \A i \in 1..Len(tried) :
                /\ tried[i].rank = Fetchable[i]
                /\ i < Len(tried) => ~Passes(tried[i].res)
          /\ (tried # <<>> /\ Passes(Last(tried).res)) =>
                /\ result = Success(Some(Last(tried).rank), Last(tried).res.price,
                                    Last(tried).res.currency)
                /\ direct = <<>>
          /\ (tried # <<>> /\ result # None /\ ~Passes(Last(tried).res)) =>
                /\ Len(tried) = Len(Fetchable)
                /\ direct # <<>>)
    /\ [][result # None => tried' = tried]_vars

\* a second candidate was accepted after the first was fetched and rejected for its
\* price, and a third candidate was left alone
C6_Witness ==
    /\ spc = "done" /\ result # None /\ result[1].success
    /\ Len(tried) = 2 /\ Len(Fetchable) >= 3
    /\ tried[1].res.success /\ ~Passes(tried[1].res)
    /\ result[1].url = Some(tried[2].rank)
    /\ result[1].price = tried[2].res.price

Kept ==
    SeqToSet(product_page_urls) \cup SeqToSet(marketplace_urls)
        \cup SeqToSet(category_page_urls) \cup {tried[i].rank : i \in 1..Len(tried)}

\* C8 as stated: in every marketplace a sponsored result that matches a category
\* pattern, or neither a product nor a category pattern, is dropped and never fetched.
C8_SponsoredDropped ==
    \A c \in Kept :
        items[c].sponsored =>
            /\ ~IsCategoryPage(marketplace, items[c].shape)
            /\ IsProductPage(marketplace, items[c].shape)

\* C8, amended: a sponsored result is kept only if it matches a product pattern
\* (whether or not it also matches a category pattern) or, on Hepsiburada, if it
\* matches no category pattern and has at least three hyphens; every other sponsored
\* result is dropped and never fetched.
C8_SponsoredKeptOnlyAsProduct ==
    \A c \in Kept :
        items[c].sponsored =>
            \/ IsProductPage(marketplace, items[c].shape)
            \/ /\ marketplace = "Hepsiburada"
               /\ ~IsCategoryPage(marketplace, items[c].shape)
               /\ items[c].shape.hyphens >= 3

\* a sponsored category link and a sponsored link of neither kind were dropped
\* while a sponsored product link of the same response was fetched
C8_Witness ==
    /\ tried # <<>> /\ Len(items) = 3
    /\ \E a, b, c \in 1..Len(items) :
        /\ items[a] = Item(TRUE, TRUE, Shape(FALSE, TRUE, 0))
        /\ items[b] = Item(TRUE, TRUE, Shape(FALSE, FALSE, 0))
        /\ items[c] = Item(TRUE, TRUE, Shape(TRUE, FALSE, 0))
        /\ Kept = {c}

\* C28: an HTTP error of the first-page request is not retried, no candidate is
\* tried and no direct search is run after it, and the result is a failure naming
\* the backend error; a failure of the second-page request alone does not fail the
\* resolution, which goes on with the first page's items.
C28_BackendErrorSurfaced ==
    /\ [][spc = "query" =>
            /\ spc' \in {"done", "page2", "items"}
            /\ result' # None =>
                /\ spc' = "done" /\ ~result'[1].success
                /\ result'[1].error \in {Some("Google API error"), Some("Unexpected error")}
                /\ items' = <<>> /\ tried' = <<>> /\ direct' = <<>>]_vars
    /\ [][spc # "query" => spc' # "query"]_vars
    /\ []((result # None /\ result[1].error = Some("Google API error")) =>
            /\ spc = "done" /\ ~result[1].success /\ result[1].price = None
            /\ items = <<>> /\ tried = <<>> /\ direct = <<>>)
    /\ [][spc = "page2" =>
            /\ spc' = "items" /\ result' = None
            /\ Len(items') >= Len(items)
            /\ SubSeq(items', 1, Len(items)) = items]_vars
    /\ [](spc = "page2" => Len(items) = MaxFirstPage /\ result = None)

\* C28 witness: the first-page request for an Amazon product with an EAN failed with
\* an HTTP error and the resolution ended there
C28_Witness ==
    /\ spc = "done" /\ marketplace = "Amazon" /\ ean # None
    /\ result = Failure("Google API error")
    /\ tried = <<>> /\ direct = <<>>

\* C27: every direct search is made with the EAN that was given to search_product:
\* by EAN when the product has one, by name only when it has none.
C27_EanReachesFallback ==
    \A i \in 1..Len(direct) : direct[i].ean = ean

(***************************************************************************)
(*                          PRICE EXTRACTORS                               *)
(***************************************************************************)

\* default of the max_retries parameter of each extract_price_from_* function
max_retries(e) ==
    CASE e = "Trendyol" -> 2
      [] e = "Hepsiburada" -> 0
      [] e = "Teknosa" -> 3
      [] e = "Amazon" -> 2

\* `if 1 <= price_val <= 1000000`, in kurus
PriceFloor == 100
PriceCeiling == 100000000
InBand(v) == v # None /\ PriceFloor <= v[1] /\ v[1] <= PriceCeiling

\* a fetched page, by what each group of strategies reads from it:
\*   early   the value the strategies before JSON-LD match (global JS variables,
\*           price attributes, CSS selectors)
\*   jsonld  the schema.org offers price
\*   late    the value the strategies after JSON-LD match
Page(early, jsonld, late) == [early |-> early, jsonld |-> jsonld, late |-> late]
NoPage == Page(None, None, None)
\* 0.50 TRY (below the band), 650.00 TRY
RawValues == {None, Some(50), Some(65000)}
\* the offers block may state another price than the rest of the page: 649.00 TRY
Pages == {Page(a, b, c) : a \in RawValues, b \in {None, Some(50), Some(64900)},
                          c \in {None, Some(65000)}}

\* what one fetch of the URL gives: a timeout, a transport or HTTP error, a 403, a page
Fetch(via, kind, page) == [via |-> via, kind |-> kind, page |-> page]
HttpFetches ==
    {Fetch("http", k, NoPage) : k \in {"timeout", "error", "blocked"}}
        \cup {Fetch("http", "page", pg) : pg \in Pages}
\* a headless-browser load: a value read from the rendered page, or none
BrowserFetches ==
    {Fetch("selenium", "error", NoPage)}
        \cup {Fetch("selenium", "page", Page(v, None, None)) : v \in RawValues}

\* the dict an extractor returns
PriceFound(price) ==
    Some([price |-> price, currency |-> Some("TRY"), success |-> TRUE, error |-> None])
PriceFailed(msg) ==
    Some([price |-> None, currency |-> None, success |-> FALSE, error |-> Some(msg)])

\* `return {...}`: the extractor ends with dict d
Return(d) ==
    /\ outcome' = d
    /\ epc' = "done"
    /\ UNCHANGED attempt

\* `if attempt < max_retries: continue else: return {... 'error': msg}`
RetryOr_oneMore(msg) ==
    IF attempt <= max_retries(extractor)
    THEN /\ attempt' = attempt + 1
         /\ UNCHANGED <<outcome, epc>>
    ELSE Return(PriceFailed(msg))
RetryOr(msg) ==
    IF attempt < max_retries(extractor)
    THEN /\ attempt' = attempt + 1
         /\ UNCHANGED <<outcome, epc>>
    ELSE Return(PriceFailed(msg))

\* "Fiyat bulunamadiysa retry yap": no strategy found a price on the page
NotFound_terminal == Return(PriceFailed("Price not found on page"))
NotFound == RetryOr("Price not found on page")

\* one iteration of the attempt loop of extract_price_from_trendyol
TrendyolAttempt ==
    /\ epc = "fetch" /\ extractor = "Trendyol"
    /\ \E f \in HttpFetches :
        /\ fetches' = Append(fetches, f)
        /\ IF f.kind = "timeout" THEN RetryOr("Request timeout after retries")
           ELSE IF f.kind # "page" THEN RetryOr("str(e)")
           ELSE IF InBand(f.page.early) THEN Return(PriceFound(f.page.early))
           ELSE IF f.page.jsonld # None THEN Return(PriceFound(f.page.jsonld))
           ELSE IF InBand(f.page.late) THEN Return(PriceFound(f.page.late))
           ELSE NotFound
    /\ UNCHANGED <<extractor, use_selenium, impersonating>>

\* extract_price_from_hepsiburada: one browser load, or else one HTTP fetch; the
\* JSON-LD branch reads an undefined name and ends in the generic handler
HepsiburadaAttempt ==
    /\ epc = "fetch" /\ extractor = "Hepsiburada"
    /\ IF use_selenium
       THEN \E f \in BrowserFetches :
            /\ fetches' = Append(fetches, f)
            /\ IF f.kind = "page" /\ InBand(f.page.early)
               THEN Return(PriceFound(f.page.early))
               ELSE Return(PriceFailed("Selenium ile fiyat bulunamadi"))
       ELSE \E f \in HttpFetches :
            /\ fetches' = Append(fetches, f)
            /\ IF f.kind = "timeout" THEN Return(PriceFailed("Request timeout"))
               ELSE IF f.kind # "page" THEN Return(PriceFailed("str(e)"))
               ELSE IF InBand(f.page.early) THEN Return(PriceFound(f.page.early))
               ELSE IF f.page.jsonld # None THEN Return(PriceFailed("str(e)"))
               ELSE IF InBand(f.page.late) THEN Return(PriceFound(f.page.late))
               ELSE Return(PriceFailed("Price not found on page"))
    /\ UNCHANGED <<extractor, use_selenium, impersonating>>

\* one iteration of the attempt loop of extract_price_from_teknosa; with plain httpx
\* a 403 returns at once; the JSON-LD branch reads an undefined name and ends in the
\* generic handler, which retries
TeknosaAttempt ==
    /\ epc = "fetch" /\ extractor = "Teknosa"
    /\ \E f \in HttpFetches :
        /\ fetches' = Append(fetches, f)
        /\ IF f.kind = "timeout"
           THEN RetryOr(IF impersonating THEN "curl_cffi error"
                        ELSE "Request timeout after retries")
           ELSE IF f.kind = "error"
           THEN RetryOr(IF impersonating THEN "curl_cffi error" ELSE "HTTP error")
           ELSE IF f.kind = "blocked"
           THEN (IF impersonating THEN RetryOr("403 Forbidden - Bot protection")
                 ELSE Return(PriceFailed("403 Forbidden - Bot protection")))
           ELSE IF InBand(f.page.early) THEN Return(PriceFound(f.page.early))
           ELSE IF f.page.jsonld # None THEN RetryOr("str(e)")
           ELSE IF InBand(f.page.late) THEN Return(PriceFound(f.page.late))
           ELSE NotFound
    /\ UNCHANGED <<extractor, use_selenium, impersonating>>

\* one iteration of the attempt loop of extract_price_from_amazon; on the last
\* attempt a price-less page is followed by a browser load when Selenium is there
AmazonAttempt ==
    /\ epc = "fetch" /\ extractor = "Amazon"
    /\ \E f \in HttpFetches :
        IF f.kind = "timeout"
        THEN fetches' = Append(fetches, f) /\ RetryOr("Request timeout after retries")
        ELSE IF f.kind # "page"
        THEN fetches' = Append(fetches, f) /\ RetryOr("str(e)")
        ELSE IF InBand(f.page.early)
        THEN fetches' = Append(fetches, f) /\ Return(PriceFound(f.page.early))
        ELSE IF f.page.jsonld # None
        THEN fetches' = Append(fetches, f) /\ Return(PriceFound(f.page.jsonld))
        ELSE IF InBand(f.page.late)
        THEN fetches' = Append(fetches, f) /\ Return(PriceFound(f.page.late))
        ELSE IF attempt = max_retries(extractor) /\ use_selenium
        THEN \E b \in BrowserFetches :
                /\ fetches' = Append(Append(fetches, f), b)
                /\ IF b.kind = "page" /\ InBand(b.page.early)
                   THEN Return(PriceFound(b.page.early))
                   ELSE NotFound
        ELSE fetches' = Append(fetches, f) /\ NotFound
    /\ UNCHANGED <<extractor, use_selenium, impersonating>>

InitExtract ==
    /\ BatchIdle /\ SearchIdle /\ LaterIdle
    /\ epc = "fetch"
    /\ extractor \in Marketplaces
    /\ use_selenium \in BOOLEAN
    /\ impersonating \in BOOLEAN
    /\ attempt = 0 /\ fetches = <<>> /\ outcome = None

NextExtract ==
    \/ TrendyolAttempt /\ UNCHANGED <<batchVars, searchVars, laterVars>>
    \/ HepsiburadaAttempt /\ UNCHANGED <<batchVars, searchVars, laterVars>>
    \/ TeknosaAttempt /\ UNCHANGED <<batchVars, searchVars, laterVars>>
    \/ AmazonAttempt /\ UNCHANGED <<batchVars, searchVars, laterVars>>

SpecExtract == InitExtract /\ [][NextExtract]_vars

\* the event loop keeps running the extractor's coroutine: every await in it is a
\* sleep or a fetch with a timeout
SpecExtractLive == SpecExtract /\ WF_vars(NextExtract)

(***************************************************************************)
(*                   PROPERTIES OF THE PRICE EXTRACTORS                    *)
(***************************************************************************)

\* no strategy of the extractor reads a price from the page
Priceless(pg) == ~InBand(pg.early) /\ pg.jsonld = None /\ ~InBand(pg.late)

\* the fetch failed: timeout, transport or HTTP error, bot block
FetchFailed(f) == f.kind \in {"timeout", "error", "blocked"}

\* the extractor ended with a not-found failure
EndedNotFound ==
    /\ outcome # None /\ ~outcome[1].success
    /\ outcome[1].error = Some("Price not found on page")

\* C3: every price an extractor reports as found lies in the band [1, 1 000 000] TRY.
C3_FoundPriceInBand ==
    (outcome # None /\ outcome[1].success) => InBand(outcome[1].price)

HttpFetchCount == Len(SelectSeq(fetches, LAMBDA f : f.via = "http"))
BrowserFetchCount == Len(SelectSeq(fetches, LAMBDA f : f.via = "selenium"))

Fetched(f) == f.via = "http" /\ f.kind = "page"

\* C24: every extractor applies its strategies in the order HTML attributes,
\* schema.org offers, inline-script scan, selectors, free text, and returns the value
\* of the first that yields a valid price. For the Trendyol and Amazon extractors,
\* whose strategies ahead of JSON-LD are the inline-script scan alone: on a page that
\* gives the attribute and selector strategies nothing, a valid schema.org price is
\* returned, whatever the inline scripts hold.
C24_SchemaBeforeScripts ==
    [][(extractor \in {"Trendyol", "Amazon"} /\ fetches' # fetches
            /\ Fetched(Last(fetches'))
            /\ InBand(Last(fetches').page.jsonld) /\ Last(fetches').page.late = None)
        => outcome' = PriceFound(Last(fetches').page.jsonld)]_vars

C26_BlockedRetriesWhileAttemptsRemain ==
    [][(extractor = "Teknosa" /\ fetches' # fetches /\ Last(fetches').kind = "blocked")
        => IF attempt < max_retries(extractor)
           THEN attempt' = attempt + 1 /\ outcome' = None
           ELSE outcome' = PriceFailed("403 Forbidden - Bot protection")]_vars

(***************************************************************************)
(*          ONE RUN: JOBS, CONCURRENCY LIMITER, SHARED BROWSER             *)
(***************************************************************************)

\* jobs of one run
MaxJobs == 3

\* asyncio.Semaphore(2) of process_excel_file, asyncio.Semaphore(1) of
\* extract_prices_from_excel_urls
BatchPermits == 2
UrlPermits == 1
Capacity_two(mode) == BatchPermits
Capacity(mode) == IF mode = "urls" THEN UrlPermits ELSE BatchPermits

\* what a job does with browsers:
\*   "plain"   no browser (Trendyol, Teknosa, Amazon before its last attempt)
\*   "shared"  an extractor takes the shared driver (Hepsiburada, Amazon's last attempt)
\*   "own"     the Hepsiburada direct search starts a browser of its own
\*   "both"    a Hepsiburada candidate is extracted, then the direct search runs
\* a job of the command-line batch is one search_product call, a job of the
\* URL-extraction mode is one extractor call
JobKinds(mode) ==
    IF mode = "urls" THEN {"plain", "shared"} ELSE {"plain", "shared", "own", "both"}

At(pc) == [at |-> pc, own |-> 0]
AllDone == \A j \in 1..Len(jobs) : jpc[j].at = "done"
\* jobs holding a permit
InProgress == {j \in 1..Len(jobs) : jpc[j].at \notin {"idle", "done"}}

\* `async with semaphore:` entered. The command-line batch awaits every call before
\* it makes the next one; asyncio.gather of the URL mode starts all jobs at once.
Acquire(j) ==
    /\ sphase = "run" /\ jpc[j].at = "idle"
    /\ permits > 0
    /\ smode = "cli" => \A k \in 1..(j - 1) : jpc[k].at = "done"
    /\ permits' = permits - 1
    /\ jpc' = [jpc EXCEPT ![j] =
                At(IF jobs[j] \in {"shared", "both"} THEN "get_driver"
                   ELSE IF jobs[j] = "own" THEN "start_own" ELSE "finish")]
    /\ UNCHANGED <<smode, sphase, jobs, pool, live, started>>

\* where a job goes once it is through with the shared driver
AfterShared(j) == IF jobs[j] = "both" THEN "start_own" ELSE "finish"

\* get_selenium_driver: `if _selenium_driver_pool is None and USE_SELENIUM`
GetDriver(j) ==
    /\ jpc[j].at = "get_driver"
    /\ jpc' = [jpc EXCEPT ![j] = At(IF pool = None THEN "creating" ELSE "navigate")]
    /\ UNCHANGED <<smode, sphase, jobs, permits, pool, live, started>>

\* get_selenium_driver: webdriver.Chrome(...), execute_cdp_cmd, assignment to the pool.
\* Chrome may fail to start (no instance, None returned), or start and then fail in
\* execute_cdp_cmd (an instance that the pool does not hold, None returned).
CreateDriver(j) ==
    /\ jpc[j].at = "creating"
    /\ \/ /\ started' = started + 1
          /\ live' = live \cup {started + 1}
          /\ pool' = Some(started + 1)
          /\ jpc' = [jpc EXCEPT ![j] = At("navigate")]
       \/ /\ UNCHANGED <<started, live, pool>>
          /\ jpc' = [jpc EXCEPT ![j] = At(AfterShared(j))]
       \/ /\ started' = started + 1
          /\ live' = live \cup {started + 1}
          /\ UNCHANGED pool
          /\ jpc' = [jpc EXCEPT ![j] = At(AfterShared(j))]
    /\ UNCHANGED <<smode, sphase, jobs, permits>>

\* selenium_extract: driver.get(url) and the reading of the page are over
EndNavigate(j) ==
    /\ jpc[j].at = "navigate"
    /\ jpc' = [jpc EXCEPT ![j] = At(AfterShared(j))]
    /\ UNCHANGED <<smode, sphase, jobs, permits, pool, live, started>>

\* hepsiburada_sync_search: driver = tarayiciyi_baslat(), whatever the pool holds
StartOwn(j) ==
    /\ jpc[j].at = "start_own"
    /\ started' = started + 1
    /\ live' = live \cup {started + 1}
    /\ jpc' = [jpc EXCEPT ![j] = [at |-> "own", own |-> started + 1]]
    /\ UNCHANGED <<smode, sphase, jobs, permits, pool>>

\* hepsiburada_sync_search: `finally: driver.quit()`
QuitOwn(j) ==
    /\ jpc[j].at = "own"
    /\ live' = live \ {jpc[j].own}
    /\ jpc' = [jpc EXCEPT ![j] = At("finish")]
    /\ UNCHANGED <<smode, sphase, jobs, permits, pool, started>>

\* the job returns: `async with semaphore` is left
JobReturns(j) ==
    /\ jpc[j].at = "finish"
    /\ permits' = permits + 1
    /\ jpc' = [jpc EXCEPT ![j] = At("done")]
    /\ UNCHANGED <<smode, sphase, jobs, pool, live, started>>

\* the job raises: `async with semaphore` is left, the handler of the marketplace
\* loop logs the error
JobRaises_keepsPermit(j) ==
    /\ jpc[j].at = "finish" /\ smode = "cli"
    /\ jpc' = [jpc EXCEPT ![j] = At("done")]
    /\ UNCHANGED <<smode, sphase, jobs, permits, pool, live, started>>
JobRaises(j) ==
    /\ jpc[j].at = "finish" /\ smode = "cli"
    /\ permits' = permits + 1
    /\ jpc' = [jpc EXCEPT ![j] = At("done")]
    /\ UNCHANGED <<smode, sphase, jobs, pool, live, started>>

\* main: process_excel_file returned
BatchReturns ==
    /\ sphase = "run" /\ smode = "cli" /\ AllDone
    /\ sphase' = "save"
    /\ UNCHANGED <<smode, jobs, jpc, permits, pool, live, started>>

\* main: `if results: save_results_to_excel(results)`; a failed write is raised again
\* and leaves main
SaveAtEnd ==
    /\ sphase = "save"
    /\ \/ sphase' = "close"
       \/ jobs # <<>> /\ sphase' = "ended"
    /\ UNCHANGED <<smode, jobs, jpc, permits, pool, live, started>>

\* main: close_selenium_driver(); the handle is emptied only after quit() returned
CloseDriver ==
    /\ sphase = "close"
    /\ IF pool = None THEN UNCHANGED <<pool, live>>
       ELSE \/ pool' = None /\ live' = live \ {pool[1]}
            \/ UNCHANGED <<pool, live>>
    /\ sphase' = "ended"
    /\ UNCHANGED <<smode, jobs, jpc, permits, started>>

\* main with --extract-prices: returns after extract_prices_from_excel_urls
UrlsReturn ==
    /\ sphase = "run" /\ smode = "urls" /\ AllDone
    /\ sphase' = "ended"
    /\ UNCHANGED <<smode, jobs, jpc, permits, pool, live, started>>

\* the dashboard's run: process_excel_file(tmp_path, marketplace_value, None,
\* update_progress) passes four arguments to a function of two, the call raises
\* before any product is processed, and the handler reports the error; the
\* dashboard has no call of close_selenium_driver
DashboardRaises ==
    /\ sphase = "run" /\ smode = "dashboard"
    /\ sphase' = "ended"
    /\ UNCHANGED <<smode, jobs, jpc, permits, pool, live, started>>

InitSession ==
    /\ BatchIdle /\ SearchIdle /\ ExtractIdle /\ CallIdle
    /\ smode \in {"cli", "urls", "dashboard"}
    /\ sphase = "run"
    /\ jobs \in IF smode = "dashboard" THEN {<<>>}
               ELSE UNION {[1..n -> JobKinds(smode)] : n \in 0..MaxJobs}
    /\ jpc = [j \in 1..Len(jobs) |-> At("idle")]
    /\ permits = Capacity(smode)
    /\ pool = None /\ live = {} /\ started = 0

NextSession ==
    \/ \E j \in 1..Len(jobs) : Acquire(j) /\ UNCHANGED <<batchVars, searchVars, extractVars, callVars>>
    \/ \E j \in 1..Len(jobs) : GetDriver(j) /\ UNCHANGED <<batchVars, searchVars, extractVars, callVars>>
    \/ \E j \in 1..Len(jobs) : CreateDriver(j) /\ UNCHANGED <<batchVars, searchVars, extractVars, callVars>>
    \/ \E j \in 1..Len(jobs) : EndNavigate(j) /\ UNCHANGED <<batchVars, searchVars, extractVars, callVars>>
    \/ \E j \in 1..Len(jobs) : StartOwn(j) /\ UNCHANGED <<batchVars, searchVars, extractVars, callVars>>
    \/ \E j \in 1..Len(jobs) : QuitOwn(j) /\ UNCHANGED <<batchVars, searchVars, extractVars, callVars>>
    \/ \E j \in 1..Len(jobs) : JobReturns(j) /\ UNCHANGED <<batchVars, searchVars, extractVars, callVars>>
    \/ \E j \in 1..Len(jobs) : JobRaises(j) /\ UNCHANGED <<batchVars, searchVars, extractVars, callVars>>
    \/ BatchReturns /\ UNCHANGED <<batchVars, searchVars, extractVars, callVars>>
    \/ SaveAtEnd /\ UNCHANGED <<batchVars, searchVars, extractVars, callVars>>
    \/ CloseDriver /\ UNCHANGED <<batchVars, searchVars, extractVars, callVars>>
    \/ UrlsReturn /\ UNCHANGED <<batchVars, searchVars, extractVars, callVars>>
    \/ DashboardRaises /\ UNCHANGED <<batchVars, searchVars, extractVars, callVars>>

SpecSession == InitSession /\ [][NextSession]_vars

(***************************************************************************)
(*                       PROPERTIES OF A RUN                               *)
(***************************************************************************)

\* C12: at every moment at most one headless-browser instance exists in the process.
C12_OneBrowser == Cardinality(live) <= 1

\* jobs inside the shared-driver part of an extraction: the pool test of
\* get_selenium_driver, the creation of the driver, the navigation
UsingShared == {j \in 1..Len(jobs) : jpc[j].at \in {"get_driver", "creating", "navigate"}}

\* C13: access to the shared browser is serialized in the batch mode and in the
\* URL-extraction mode: at no time are two extractions inside get_selenium_driver or
\* navigating the shared session, and a driver is put into the pool only when the
\* pool is empty.
C13_SharedSerialized ==
    /\ [](Cardinality(UsingShared) <= 1)
    /\ [][pool' # pool /\ pool' # None => pool = None]_vars
\* two gathered URL extractions that both need the browser: one navigates, the other waits
C13_Witness ==
    /\ smode = "urls" /\ jobs = <<"shared", "shared">>
    /\ jpc[2].at = "navigate" /\ jpc[1].at = "idle" /\ pool # None

\* C14: during a batch run the search_product invocations in progress never exceed
\* the limiter's capacity of 2: the permits out are exactly the invocations in
\* progress, an invocation starts only by taking a free permit, and it gives the
\* permit back when it ends, by returning or by raising.
C14_LimiterBoundsInvocations ==
    /\ [](smode = "cli" =>
            /\ Cardinality(InProgress) <= 2
            /\ permits >= 0
            /\ permits + Cardinality(InProgress) = 2)
    /\ [][smode = "cli" =>
            \A j \in 1..Len(jobs) :
                /\ (jpc[j].at = "idle" /\ jpc'[j].at # "idle") =>
                        (permits > 0 /\ permits' = permits - 1)
                /\ (jpc[j].at # "done" /\ jpc'[j].at = "done") =>
                        (jpc[j].at # "idle" /\ permits' = permits + 1)]_vars
\* a second invocation in progress after the first one has ended
C14_Witness ==
    /\ smode = "cli" /\ Len(jobs) = 3
    /\ jpc[1].at = "done" /\ jpc[2].at = "navigate" /\ jpc[3].at = "idle"
    /\ permits = 1

\* C16: whenever a batch run has ended, from the command line or from the dashboard,
\* no browser instance is held and the process-wide handle is empty.
C16_TornDownAtEnd ==
    (sphase = "ended" /\ smode \in {"cli", "dashboard"}) => (pool = None /\ live = {})

(***************************************************************************)
(*                  THE PRICE CHECK CALLED ON ITS OWN                      *)
(***************************************************************************)

\* is_price_valid(found_price, mm_price) returns
PriceCheckReturns ==
    /\ call = "is_price_valid" /\ ret = None
    /\ ret' = Some(IsPriceValid(args.found, args.reference))
    /\ UNCHANGED <<call, args, env>>

InitPriceCheck ==
    /\ BatchIdle /\ SearchIdle /\ ExtractIdle /\ SessionIdle
    /\ call = "is_price_valid"
    /\ args \in [found : FoundInputs, reference : ReferenceInputs]
    /\ env = None /\ ret = None

NextPriceCheck ==
    PriceCheckReturns /\ UNCHANGED <<batchVars, searchVars, extractVars, sessionVars>>

SpecPriceCheck == InitPriceCheck /\ [][NextPriceCheck]_vars

\* found lies in the closed band [0.65 * reference, 1.35 * reference], in exact arithmetic
InExactBand(found, reference) ==
    /\ found # None
    /\ 65 * reference[1] <= 100 * found[1]
    /\ 100 * found[1] <= 135 * reference[1]

\* C17: is_price_valid returns true for every found price when no reference price
\* is supplied, and with a (positive) reference price it returns true iff
\* 0.65 * reference <= found <= 1.35 * reference, both bounds included.
C17_ValidIffInBand ==
    (call = "is_price_valid" /\ ret # None) =>
        /\ args.reference = None => ret[1] = TRUE
        /\ (args.reference # None /\ args.reference[1] > 0) =>
                (ret[1] <=> InExactBand(args.found, args.reference))

\* C18: a found price that is missing, zero or negative is never accepted:
\* search_product returns no successful result carrying such a price.
C18_NonPositiveNeverAccepted ==
    (result # None /\ result[1].success) =>
        (result[1].price # None /\ result[1].price[1] > 0)

(***************************************************************************)
(*                THE ENDPOINT /search-and-redirect (main.py)              *)
(***************************************************************************)

\* A link of a search item: the host part it shows, the URL it stands for, and,
\* for a google.com/url link, whether it has a `url` parameter and how many times
\* the URL in it is percent-encoded. A target URL may hold percent-escapes of its
\* own (?q=a%26b); enc = -1 is such a target with its own escapes decoded.
Link(host, target, has_url, enc) ==
    [host |-> host, target |-> target, has_url |-> has_url, enc |-> enc]
PlainLink(target) == Link("marketplace", target, FALSE, 0)
Targets == [site : Marketplaces, escapes : BOOLEAN]
WrapperHosts == {"google.com/url", "GOOGLE.COM/URL"}
\* deepest percent-encoding of a wrapped URL
MaxEncoding == 3
Links ==
    {PlainLink(t) : t \in Targets}
    \cup {Link(h, t, TRUE, n) : h \in WrapperHosts, t \in Targets, n \in 0..MaxEncoding}
    \cup {Link(h, t, FALSE, 0) : h \in WrapperHosts, t \in Targets}

\* `'%' in url`
HasPercent(u) == u.enc > 0 \/ (u.enc = 0 /\ u.target.escapes)
\* unquote: one level of percent-encoding less, if there is a '%'
unquote(u) == IF HasPercent(u) THEN [u EXCEPT !.enc = u.enc - 1] ELSE u

\* extract_real_url(link): parse_qs decodes the parameter once, unquote once more,
\* and once again if a '%' is left
extract_real_url(link) ==
    IF link.host \in WrapperHosts /\ link.has_url
    THEN LET real_url == unquote(link)
             decoded_url == unquote(real_url)
             redirect_url == IF HasPercent(decoded_url) THEN unquote(decoded_url)
                             ELSE decoded_url
         IN Link("marketplace", link.target, FALSE, redirect_url.enc)
    ELSE link

\* the same statements inside search_and_redirect (main.py:207-220)
RedirectUrl(link) == extract_real_url(link)

\* what the search backend may answer: an HTTP error status, no answer in time, a
\* failed connection, or a body with or without items; an item may lack its link
StatusErrors == {400, 403, 429, 500, 503}
BackendAnswers ==
    {[kind |-> "status", code |-> c] : c \in StatusErrors}
    \cup {[kind |-> "timeout"], [kind |-> "connect_error"]}
    \cup {[kind |-> "body", items |-> None], [kind |-> "body", items |-> Some(<<>>)]}
    \cup {[kind |-> "body", items |-> Some(<<None>>)]}
    \cup {[kind |-> "body", items |-> Some(<<Some(l)>>)] : l \in Links}

HttpError(status, detail) == [status |-> status, detail |-> detail]
RedirectResponse(url) == [status |-> 302, url |-> url]

\* the `try` block of search_and_redirect: what it returns or raises
TryBlock(answer) ==
    CASE answer.kind = "status" -> [raised |-> "HTTPStatusError"]
      [] answer.kind = "timeout" -> [raised |-> "TimeoutException"]
      [] answer.kind = "connect_error" -> [raised |-> "ConnectError"]
      [] OTHER ->
            IF answer.items = None \/ answer.items[1] = <<>>
            THEN [raised |-> "HTTPException", status |-> 404]
            ELSE IF answer.items[1][1] = None
                 THEN [raised |-> "KeyError"]
                 ELSE [raised |-> "", value |-> RedirectResponse(RedirectUrl(answer.items[1][1][1]))]

\* the except clauses, in their order: HTTPStatusError, TimeoutException, KeyError,
\* Exception (which an HTTPException raised in the try block is)
Handlers(t) ==
    CASE t.raised = "" -> t.value
      [] t.raised = "HTTPStatusError" -> HttpError(502, "Google API error")
      [] t.raised = "TimeoutException" -> HttpError(504, "Request to Google API timed out")
      [] t.raised = "KeyError" -> HttpError(502, "Invalid response from Google API")
      [] OTHER -> HttpError(500, "Internal server error")

\* `response = await client.get(GOOGLE_SEARCH_URL, params=params)`
BackendAnswersRequest ==
    /\ call = "search_and_redirect" /\ env = None
    /\ \E answer \in BackendAnswers : env' = Some(answer)
    /\ UNCHANGED <<call, args, ret>>

\* the endpoint answers
EndpointResponds ==
    /\ call = "search_and_redirect" /\ env # None /\ ret = None
    /\ ret' = Some(Handlers(TryBlock(env[1])))
    /\ UNCHANGED <<call, args, env>>

ProductNames == {"a", "b"}

InitEndpoint ==
    /\ BatchIdle /\ SearchIdle /\ ExtractIdle /\ SessionIdle
    /\ call = "search_and_redirect"
    /\ args \in [product_name : ProductNames, marketplace : Marketplaces]
    /\ env = None /\ ret = None

NextEndpoint ==
    \/ BackendAnswersRequest /\ UNCHANGED <<batchVars, searchVars, extractVars, sessionVars>>
    \/ EndpointResponds /\ UNCHANGED <<batchVars, searchVars, extractVars, sessionVars>>

SpecEndpoint == InitEndpoint /\ [][NextEndpoint]_vars

\* C19: /search-and-redirect answers 302 with the resolved URL when the search
\* returns a result, 404 when it returns no result, 502 when the backend answers
\* with an HTTP error, and 504 when the backend times out.
C19_StatusReflectsFailure ==
    (call = "search_and_redirect" /\ ret # None) =>
        LET answer == env[1] IN
        /\ (answer.kind = "body" /\ answer.items # None /\ answer.items[1] # <<>>
               /\ answer.items[1][1] # None) => ret[1].status = 302
        /\ (answer.kind = "body" /\ (answer.items = None \/ answer.items[1] = <<>>)) =>
                ret[1].status = 404
        /\ answer.kind = "status" => ret[1].status = 502
        /\ answer.kind = "timeout" => ret[1].status = 504

(***************************************************************************)
(*                 THE PRICE NORMALIZER extract_price                      *)
(***************************************************************************)

\* A text is a sequence of one-character strings.
Digits == {"0", "1", "2", "3", "4", "5", "6", "7", "8", "9"}
Whitespace == {" "}

\* str.replace(old, new): every occurrence from the left, not overlapping
RECURSIVE Replace(_, _, _)
Replace(text, old, new) ==
    IF Len(text) < Len(old) THEN text
    ELSE IF SubSeq(text, 1, Len(old)) = old
         THEN new \o Replace(SubSeq(text, Len(old) + 1, Len(text)), old, new)
         ELSE <<text[1]>> \o Replace(Tail(text), old, new)

\* str.strip()
RECURSIVE Strip(_)
Strip(text) ==
    IF text = <<>> THEN text
    ELSE IF text[1] \in Whitespace THEN Strip(Tail(text))
    ELSE IF text[Len(text)] \in Whitespace THEN Strip(SubSeq(text, 1, Len(text) - 1))
    ELSE text

Contains(text, c) == \E i \in 1..Len(text) : text[i] = c

\* a decimal number: the digits before and after the point, without leading zeros
\* before it and without trailing zeros after it
RECURSIVE NoLeadingZeros(_)
NoLeadingZeros(ds) == IF ds # <<>> /\ ds[1] = "0" THEN NoLeadingZeros(Tail(ds)) ELSE ds
RECURSIVE NoTrailingZeros(_)
NoTrailingZeros(ds) ==
    IF ds # <<>> /\ ds[Len(ds)] = "0" THEN NoTrailingZeros(SubSeq(ds, 1, Len(ds) - 1)) ELSE ds
Decimal(int, frac) == [int |-> NoLeadingZeros(int), frac |-> NoTrailingZeros(frac)]

\* float(text) for a text of digits and points: None stands for ValueError
ParseFloat(text) ==
    LET points == {i \in 1..Len(text) : text[i] = "."}
    IN IF Cardinality(points) > 1 \/ Len(text) = Cardinality(points) THEN None
       ELSE IF points = {} THEN Some(Decimal(text, <<>>))
       ELSE LET p == CHOOSE i \in points : TRUE
            IN Some(Decimal(SubSeq(text, 1, p - 1), SubSeq(text, p + 1, Len(text))))

\* `1 <= price <= 1000000`
Million == <<"1", "0", "0", "0", "0", "0", "0">>
InPriceRange(v) ==
    /\ v.int # <<>>
    /\ \/ Len(v.int) < Len(Million)
       \/ v.int = Million /\ v.frac = <<>>

\* extract_price(price_text)
extract_price(price_text) ==
    IF price_text = <<>> THEN None
    ELSE LET bare == Strip(Replace(Replace(Replace(price_text, <<"T", "L">>, <<>>),
                                           <<"₺">>, <<>>), <<"T", "R", "Y">>, <<>>))
             turkish == IF Contains(bare, ".") /\ Contains(bare, ",")
                        THEN Replace(Replace(bare, <<".">>, <<>>), <<",">>, <<".">>)
                        ELSE IF Contains(bare, ",")
                             THEN Replace(bare, <<",">>, <<".">>)
                             ELSE bare
             cleaned == SelectSeq(turkish, LAMBDA c : c \in Digits \cup {"."})
             price == ParseFloat(cleaned)
         IN IF price # None /\ InPriceRange(price[1]) THEN price ELSE None

\* ---- price texts in Turkish convention ----
\* most groups of three digits after the leading digits
MaxGroups == 2
Leads == {<<"0">>, <<"1">>, <<"1", "2">>}
Groups == {<<"4", "9", "9">>, <<"0", "0", "0">>}
Fractions == {<<>>, <<"2", "5">>, <<"5", "0">>}
Separators == {<<>>, <<".">>}
Decorations ==
    {[before |-> <<>>, after |-> <<>>], [before |-> <<>>, after |-> <<" ", "T", "L">>],
     [before |-> <<"₺">>, after |-> <<>>], [before |-> <<>>, after |-> <<" ", "T", "R", "Y">>]}
PriceTexts ==
    [lead : Leads, groups : UNION {[1..n -> Groups] : n \in 0..MaxGroups},
     sep : Separators, frac : Fractions, deco : Decorations]

RECURSIVE Join(_, _)
Join(groups, sep) ==
    IF groups = <<>> THEN <<>> ELSE sep \o groups[1] \o Join(Tail(groups), sep)

\* the text as the page shows it, and the number it stands for
Render(t) ==
    t.deco.before \o t.lead \o Join(t.groups, t.sep)
        \o (IF t.frac = <<>> THEN <<>> ELSE <<",">> \o t.frac) \o t.deco.after
ValueOf(t) == Decimal(t.lead \o Join(t.groups, <<>>), t.frac)

\* extract_price returns
NormalizerReturns ==
    /\ call = "extract_price" /\ ret = None
    /\ ret' = Some(extract_price(Render(args)))
    /\ UNCHANGED <<call, args, env>>

InitNormalizer ==
    /\ BatchIdle /\ SearchIdle /\ ExtractIdle /\ SessionIdle
    /\ call = "extract_price"
    /\ args \in PriceTexts
    /\ env = None /\ ret = None

NextNormalizer ==
    NormalizerReturns /\ UNCHANGED <<batchVars, searchVars, extractVars, sessionVars>>

SpecNormalizer == InitNormalizer /\ [][NextNormalizer]_vars

\* C20: extract_price maps every price text in Turkish convention ('.' between
\* groups of thousands, ',' before the decimals, either of them optional, currency
\* symbols around it) whose value lies in the accepted range to its decimal value.
C20_TurkishTextToValue ==
    (call = "extract_price" /\ ret # None /\ InPriceRange(ValueOf(args))) =>
        ret[1] = Some(ValueOf(args))

(***************************************************************************)
(*        SIMILARITY SCORER: calculate_similarity                          *)
(*                                                                         *)
(* A text is the list of its words after lower(), strip() and split(); a   *)
(* word is a sequence of characters.  Scores are exact fractions <<n, d>>  *)
(* with d > 0: the code computes them in doubles, whose rounding error of  *)
(* a few units in the last place is far below every distance the           *)
(* properties below depend on, and the floors and the clamp are max() and  *)
(* min() against constants, which are exact in both.                       *)
(***************************************************************************)

Frac(n, d) == <<n, d>>
LeQ(x, y) == x[1] * y[2] <= y[1] * x[2]
MaxQ(x, y) == IF LeQ(x, y) THEN y ELSE x
MinQ(x, y) == IF LeQ(x, y) THEN x ELSE y
EqQ(x, y) == x[1] * y[2] = y[1] * x[2]

Letters == {"a", "b", "c", "e", "g", "i", "r", "s", "x"}
Numerals == {"2", "7"}

\* the words the names are made of: two brands one letter apart, two model codes
\* of which one contains the other, a color and a filtered technical word
Vocabulary ==
    { <<"a", "c", "e", "r">>, <<"a", "c", "e", "r", "s">>,
      <<"g", "7", "x">>, <<"g", "7", "x", "2">>,
      <<"g", "r", "i">>, <<"g", "b">> }

filter_words == { <<"g", "b">> }
colors == { <<"g", "r", "i">> }

MaxWords == 2
Names == UNION {[1..n -> Vocabulary] : n \in 0..MaxWords}

\* model_pattern on a word without '.' and '-': between the two \b the whole word
\* is [A-Z][0-9]+[A-Z]+[0-9]* or [A-Z]{2,}[0-9]+[A-Z0-9-]* (case ignored)
model_pattern(w) ==
    LET n == Len(w)
        All(lo, hi, S) == \A k \in lo..hi : w[k] \in S
    IN \/ \E i \in 2..n : \E k \in (i + 1)..n :
             /\ w[1] \in Letters /\ All(2, i, Numerals)
             /\ All(i + 1, k, Letters) /\ All(k + 1, n, Numerals)
       \/ \E i \in 2..n : \E j \in (i + 1)..n :
             /\ All(1, i, Letters) /\ All(i + 1, j, Numerals)
             /\ All(j + 1, n, Letters \cup Numerals)

\* the normalized model codes of a text: re.findall, upper(), separators removed,
\* matches shorter than three characters dropped
Models(text) == {text[i] : i \in {k \in 1..Len(text) : model_pattern(text[k]) /\ Len(text[k]) >= 3}}

\* `model1 in model2`: a contiguous occurrence
Within(u, v) == \E i \in 0..(Len(v) - Len(u)) : SubSeq(v, i + 1, i + Len(u)) = u

\* difflib.SequenceMatcher: the longest common block, earliest in a and then in
\* b, and recursively the blocks to its left and to its right
RECURSIVE Run(_, _, _, _, _, _)
Run(a, b, i, j, ahi, bhi) ==
    IF i >= ahi \/ j >= bhi THEN 0
    ELSE IF a[i] # b[j] THEN 0 ELSE 1 + Run(a, b, i + 1, j + 1, ahi, bhi)

find_longest_match(a, b, alo, ahi, blo, bhi) ==
    LET size == [p \in (alo..(ahi - 1)) \X (blo..(bhi - 1)) |-> Run(a, b, p[1], p[2], ahi, bhi)]
        best == CHOOSE k \in {size[p] : p \in DOMAIN size} : \A p \in DOMAIN size : size[p] <= k
        i0 == CHOOSE i \in alo..(ahi - 1) :
                  /\ \E j \in blo..(bhi - 1) : size[<<i, j>>] = best
                  /\ \A i2 \in alo..(i - 1), j \in blo..(bhi - 1) : size[<<i2, j>>] # best
        j0 == CHOOSE j \in blo..(bhi - 1) :
                  /\ size[<<i0, j>>] = best
                  /\ \A j2 \in blo..(j - 1) : size[<<i0, j2>>] # best
    IN <<i0, j0, best>>

RECURSIVE Matches(_, _, _, _, _, _)
Matches(a, b, alo, ahi, blo, bhi) ==
    IF alo >= ahi \/ blo >= bhi THEN 0
    ELSE LET m == find_longest_match(a, b, alo, ahi, blo, bhi)
         IN IF m[3] = 0 THEN 0
            ELSE m[3] + Matches(a, b, alo, m[1], blo, m[2])
                      + Matches(a, b, m[1] + m[3], ahi, m[2] + m[3], bhi)

\* SequenceMatcher(None, a, b).ratio() = 2 * matches / (len(a) + len(b))
ratio(a, b) ==
    IF Len(a) + Len(b) = 0 THEN Frac(1, 1)
    ELSE Frac(2 * Matches(a, b, 1, Len(a) + 1, 1, Len(b) + 1), Len(a) + Len(b))

\* ' '.join(words)
RECURSIVE JoinWords(_)
JoinWords(ws) ==
    IF ws = <<>> THEN <<>>
    ELSE IF Len(ws) = 1 THEN ws[1] ELSE ws[1] \o <<" ">> \o JoinWords(Tail(ws))

SeriesWords == 4

Important(text) == {text[i] : i \in {k \in 1..Len(text) : text[k] \notin filter_words /\ Len(text[k]) >= 2}}

brand_match(text1, text2) ==
    LET brand1 == IF text1 # <<>> THEN text1[1] ELSE <<>>
        brand2 == IF text2 # <<>> THEN text2[1] ELSE <<>>
    IN IF brand1 = brand2 THEN Frac(1, 1)
       ELSE IF brand1 # <<>> /\ brand2 # <<>>
            THEN LET brand_similarity == ratio(brand1, brand2)
                 IN IF ~LeQ(brand_similarity, Frac(8, 10)) THEN brand_similarity ELSE Frac(0, 1)
            ELSE Frac(0, 1)

\* the pairs of model codes of which one lies within the other and covers at
\* least 60% of it
PartialPairs(models1, models2) ==
    {p \in models1 \X models2 :
        /\ Within(p[1], p[2]) \/ Within(p[2], p[1])
        /\ LET match_length == IF Len(p[1]) <= Len(p[2]) THEN Len(p[1]) ELSE Len(p[2])
               longer_length == IF Len(p[1]) <= Len(p[2]) THEN Len(p[2]) ELSE Len(p[1])
           IN longer_length > 0 /\ 10 * match_length >= 6 * longer_length}

partial_model_score(models1, models2) ==
    LET ratios == {IF Len(p[1]) <= Len(p[2]) THEN Frac(Len(p[1]), Len(p[2]))
                                                ELSE Frac(Len(p[2]), Len(p[1])) :
                       p \in PartialPairs(models1, models2)}
    IN IF ratios = {} THEN Frac(0, 1)
       ELSE CHOOSE r \in ratios : \A q \in ratios : LeQ(q, r)

model_score(models1, models2) ==
    LET common_models == models1 \cap models2
        missing_models == models1 \ models2
        partial == partial_model_score(models1, models2)
    IN IF common_models # {}
       THEN IF missing_models = {} THEN Frac(1, 1)
            ELSE Frac(5 + 2 * Cardinality(common_models), 10)
       ELSE IF PartialPairs(models1, models2) # {}
            THEN Frac(3 * partial[2] + 3 * partial[1], 10 * partial[2])
            ELSE IF missing_models # {} THEN Frac(-2, 10) ELSE Frac(0, 1)

color_match(colors1, colors2) ==
    IF colors1 = {} /\ colors2 = {} THEN Frac(1, 1)
    ELSE IF colors1 = colors2 THEN Frac(1, 1)
    ELSE IF colors1 # {} /\ colors2 # {} /\ colors1 \cap colors2 # {} THEN Frac(1, 2)
    ELSE Frac(0, 1)

ModelMatch(text1, text2) ==
    \/ Models(text1) \cap Models(text2) # {}
    \/ PartialPairs(Models(text1), Models(text2)) # {}

\* brand 30%, model 40%, color 10%, series 15%, other important words 5%
WeightedSum(b, m, c, s, r) ==
    Frac(  30 * b[1] * m[2] * c[2] * s[2] * r[2]
         + 40 * m[1] * b[2] * c[2] * s[2] * r[2]
         + 10 * c[1] * b[2] * m[2] * s[2] * r[2]
         + 15 * s[1] * b[2] * m[2] * c[2] * r[2]
         +  5 * r[1] * b[2] * m[2] * c[2] * s[2],
         100 * b[2] * m[2] * c[2] * s[2] * r[2])

ModelFloor_off(similarity, text1, text2) == similarity

ModelFloor(similarity, text1, text2) ==
    IF ModelMatch(text1, text2) THEN MaxQ(similarity, Frac(5, 10)) ELSE similarity

BrandFloor(similarity, text1, text2) ==
    IF ~LeQ(brand_match(text1, text2), Frac(8, 10)) /\ ModelMatch(text1, text2)
    THEN MaxQ(similarity, Frac(7, 10)) ELSE similarity

calculate_similarity(text1, text2) ==
    IF text1 = <<>> \/ text2 = <<>> THEN Frac(0, 1)
    ELSE LET filtered1 == Important(text1)
             filtered2 == Important(text2)
             unfiltered == filtered1 = {} \/ filtered2 = {}
             words1_important == IF unfiltered THEN SeqToSet(text1) ELSE filtered1
             words2_important == IF unfiltered THEN SeqToSet(text2) ELSE filtered2
             series1 == JoinWords(SubSeq(text1, 1, IF Len(text1) < SeriesWords THEN Len(text1) ELSE SeriesWords))
             series2 == JoinWords(SubSeq(text2, 1, IF Len(text2) < SeriesWords THEN Len(text2) ELSE SeriesWords))
             series_similarity == ratio(series1, series2)
             common_important == words1_important \cap words2_important
             longest == IF Cardinality(words1_important) >= Cardinality(words2_important)
                        THEN Cardinality(words1_important) ELSE Cardinality(words2_important)
             important_ratio == IF longest > 0 THEN Frac(Cardinality(common_important), longest)
                                ELSE Frac(0, 1)
             similarity == WeightedSum(brand_match(text1, text2),
                                       model_score(Models(text1), Models(text2)),
                                       color_match(words1_important \cap colors, words2_important \cap colors),
                                       series_similarity, important_ratio)
         IN MaxQ(Frac(0, 1), MinQ(Frac(1, 1),
                BrandFloor(ModelFloor(similarity, text1, text2), text1, text2)))

(***************************************************************************)
(*        FUNCTIONS CALLED ON THEIR OWN: extract_real_url, calculate_similarity                  *)
(***************************************************************************)

\* extract_real_url returns
RealUrlReturns ==
    /\ call = "extract_real_url" /\ ret = None
    /\ ret' = Some(extract_real_url(args.link))
    /\ UNCHANGED <<call, args, env>>

\* calculate_similarity returns
SimilarityReturns ==
    /\ call = "calculate_similarity" /\ ret = None
    /\ ret' = Some(calculate_similarity(args.text1, args.text2))
    /\ UNCHANGED <<call, args, env>>

InitFunctions ==
    /\ BatchIdle /\ SearchIdle /\ ExtractIdle /\ SessionIdle
    /\ \/ call = "extract_real_url" /\ args \in [link : Links]
       \/ call = "calculate_similarity" /\ args \in [text1 : Names, text2 : Names]
    /\ env = None /\ ret = None

NextFunctions ==
    \/ RealUrlReturns /\ UNCHANGED <<batchVars, searchVars, extractVars, sessionVars>>
    \/ SimilarityReturns /\ UNCHANGED <<batchVars, searchVars, extractVars, sessionVars>>

SpecFunctions == InitFunctions /\ [][NextFunctions]_vars

\* C21: extract_real_url returns a URL that is no redirect wrapper unchanged, and
\* for a wrapper it returns the embedded target, decoded never more often than it
\* was encoded; a target encoded once or twice comes out as the plain target.
C21_RealUrlDecoded ==
    (call = "extract_real_url" /\ ret # None) =>
        LET link == args.link
            url == ret[1]
        IN /\ link.host \notin WrapperHosts => url = link
           /\ (link.host \in WrapperHosts /\ link.has_url) =>
                /\ url.target = link.target /\ url.host = "marketplace"
                /\ url.enc >= 0
                /\ link.enc \in 1..2 => url.enc = 0

\* C22: calculate_similarity(s, s) = 1.0 for every non-empty product name s, with
\* or without a model code or a color in it.
C22_IdenticalScoresOne ==
    (call = "calculate_similarity" /\ ret # None
        /\ args.text1 = args.text2 /\ args.text1 # <<>>) =>
        EqQ(ret[1], Frac(1, 1))

\* the two names share a model code: the same code, or one code inside the other
\* covering at least 60% of it
SharesModel ==
    \E m1 \in Models(args.text1), m2 \in Models(args.text2) :
        \/ m1 = m2
        \/ /\ Within(m1, m2) \/ Within(m2, m1)
           /\ 10 * Len(m1) >= 6 * Len(m2) /\ 10 * Len(m2) >= 6 * Len(m1)

\* C30: for every pair of non-empty names the score lies in [0, 1]; it is at
\* least 0.5 when the names share a model code (exact or partial), and at least
\* 0.7 when in addition their first tokens, the brands, are equal.
C30_ScoreFloors ==
    (call = "calculate_similarity" /\ ret # None
        /\ args.text1 # <<>> /\ args.text2 # <<>>) =>
        /\ LeQ(Frac(0, 1), ret[1]) /\ LeQ(ret[1], Frac(1, 1))
        /\ SharesModel => LeQ(Frac(5, 10), ret[1])
        /\ (SharesModel /\ args.text1[1] = args.text2[1]) => LeQ(Frac(7, 10), ret[1])

\* two names of different brands whose model codes match only partially got the
\* floor of 0.5 as their score
C30_Witness ==
    /\ call = "calculate_similarity" /\ ret # None
    /\ args.text1 # <<>> /\ args.text2 # <<>>
    /\ SharesModel /\ Models(args.text1) \cap Models(args.text2) = {}
    /\ args.text1[1] # args.text2[1]
    /\ EqQ(ret[1], Frac(5, 10))

====
